---- MODULE Spec2Model ----
(***************************************************************************)
(* health_checker.py: one pass of run_checks_once over the configured      *)
(* endpoints.  Each endpoint is probed with one HTTP GET (check_url), the  *)
(* result is logged (emit_log) and, when it is DOWN, an ALERT record is    *)
(* logged and the enabled channels (Slack webhook, e-mail) are invoked.    *)
(*                                                                         *)
(* Strings that the program only formats are token sequences: a status is  *)
(* <<"UP">> or <<"DOWN", " (", ..., ")">>.  A log line is identified with  *)
(* the dict json.dumps serialises (the encoding is injective); the         *)
(* timestamp of a result entry is the token "now".  The order of all       *)
(* outside effects (wire calls, prints, file appends, channel returns) is  *)
(* kept in the history variable events.  print to the primary stream is    *)
(* taken to succeed; the alert text's warning sign is the token            *)
(* "ALERT-SIGN ".                                                          *)
(***************************************************************************)
EXTENDS Integers, Sequences, FiniteSets, TLC

\* Bound: the number of comma-separated fields of the URLS setting.
MaxFields == 2

DEFAULT_URLS == <<"https://www.google.com", "https://www.github.com">>

\* A field of URLS after strip(); Blank is a field that strips to nothing.
Blank == ""
Fields == {"https://ok.test", Blank}

\* Python's None, for settings that are str or None.
None == "<None>"
NoPort == [none |-> TRUE, n |-> 0]
Port(n) == [none |-> FALSE, n |-> n]

\* LOG_FILE as its path components; <<>> is the empty (unset) path.
LogPaths == {<<>>, <<"health.log">>, <<"logs", "health.log">>}

\* What the transport can do with the single requests.get of a probe: answer
\* with a status code, raise a requests.exceptions.RequestException
\* (connection refused, DNS failure, timeout, TLS error), or raise an
\* exception outside that hierarchy (urllib3's LocationParseError for a host
\* label longer than 63 characters, a UnicodeError from the idna codec).
Response(c) == [kind |-> "response", code |-> c, desc |-> ""]
Raises(k, d) == [kind |-> k, code |-> 0, desc |-> d]
GetOutcomes ==
    {Response(200), Response(503),
     Raises("RequestException", "timeout"),
     Raises("Exception", "label empty or too long")}
\* requests.post to the webhook.
PostOutcomes ==
    {Response(200), Response(500), Raises("RequestException", "timeout")}
\* The SMTP session (connect, [starttls,] login, send_message).
SmtpOutcomes ==
    {[kind |-> "sent", code |-> 0, desc |-> ""],
     Raises("Exception", "authentication failed")}

VARIABLES
    URLS,            \* the URLS setting, split at commas, each field stripped
    LOG_FILE,        \* module global, line 17
    writable,        \* the file system lets LOG_FILE's directory and file be made
    SLACK_WEBHOOK,   \* line 18
    ALERT_EMAIL_TO,  \* line 19
    SMTP_SERVER,     \* line 21
    SMTP_PORT,       \* line 22
    SMTP_USER,       \* line 23
    pc,              \* position in run_checks_once / log_result
    urls,            \* run_checks_once: urls
    i,               \* run_checks_once: index of the loop's current url
    status,          \* run_checks_once: status
    results,         \* run_checks_once: results
    events           \* history: every outside effect, in order

config == <<URLS, LOG_FILE, writable, SLACK_WEBHOOK, ALERT_EMAIL_TO,
            SMTP_SERVER, SMTP_PORT, SMTP_USER>>
vars == <<URLS, LOG_FILE, writable, SLACK_WEBHOOK, ALERT_EMAIL_TO,
          SMTP_SERVER, SMTP_PORT, SMTP_USER, pc, urls, i, status, results,
          events>>

----------------------------------------------------------------------------
\* Pure functions of the program.

\* Python truthiness of SMTP_PORT (None and 0 are false).
Truthy(p) == ~p.none /\ p.n # 0

parse_urls(env) ==
    LET kept == SelectSeq(env, LAMBDA u : u # Blank)
    IN IF kept # <<>> THEN kept ELSE DEFAULT_URLS

UP == <<"UP">>
DownCode(c) == <<"DOWN", " (", ToString(c), ")">>
DownError(d) == <<"DOWN", " (", "Error: ", d, ")">>

Returned(s) == [raised |-> FALSE, status |-> s]
Raised == [raised |-> TRUE, status |-> <<>>]

check_url_nocode(out) ==
    IF out.kind = "response"
    THEN Returned(IF out.code = 200 THEN UP ELSE <<"DOWN">>)
    ELSE IF out.kind = "RequestException"
         THEN Returned(DownError(out.desc))
         ELSE Raised

\* check_url: the status for a transport outcome, or the exception escaping.
check_url(out) ==
    IF out.kind = "response"
    THEN Returned(IF out.code = 200 THEN UP ELSE DownCode(out.code))
    ELSE IF out.kind = "RequestException"
         THEN Returned(DownError(out.desc))
         ELSE Raised

startswith_DOWN(s) == Len(s) >= 1 /\ s[1] = "DOWN"

\* os.path.dirname on path components.
dirname(p) == IF Len(p) = 0 THEN <<>> ELSE SubSeq(p, 1, Len(p) - 1)

\* os.makedirs(dirname, exist_ok=True) followed by open(LOG_FILE, "a") and
\* write: os.makedirs("") raises FileNotFoundError; otherwise either raises
\* exactly when the file system refuses.
write_raises(path) == dirname(path) = <<>> \/ ~writable

Ev(ch, line) == [ch |-> ch, i |-> i, line |-> line]
Wire(ch, out) == [ch |-> ch, i |-> i, out |-> out]
Ret(fn, val) == [ch |-> "return", i |-> i, fn |-> fn, val |-> val]

\* emit_log: the effects of logging one entry.
emit_log(entry) ==
    <<Ev("stdout", entry)>> \o
    (IF LOG_FILE # <<>>
     THEN IF write_raises(LOG_FILE)
          THEN <<Ev("stdout", [error |-> <<"failed to write log file: ", "OSError">>])>>
          ELSE <<Ev("file", entry)>>
     ELSE <<>>)

alert_text(url, s) == <<"ALERT-SIGN ", url, " is ">> \o s

\* send_slack_alert: effects after the POST, and the value returned.
send_slack_alert(out) ==
    IF out.kind = "response"
    THEN <<Wire("POST", out), Ret("send_slack_alert", out.code = 200)>>
    ELSE <<Wire("POST", out)>> \o
         emit_log([error |-> <<"slack send failed: ", out.desc>>]) \o
         <<Ret("send_slack_alert", FALSE)>>

\* send_email_alert, line 67: the settings the guard accepts.
smtp_configured ==
    SMTP_SERVER # "" /\ Truthy(SMTP_PORT) /\ SMTP_USER # None

send_email_alert(out) ==
    IF ~smtp_configured
    THEN emit_log([error |-> <<"SMTP not configured, skipping email alert">>]) \o
         <<Ret("send_email_alert", FALSE)>>
    ELSE LET wire == [ch |-> "SMTP", i |-> i, out |-> out,
                      ssl |-> (SMTP_PORT.n = 465)]
         IN IF out.kind = "sent"
            THEN <<wire, Ret("send_email_alert", TRUE)>>
            ELSE <<wire>> \o
                 emit_log([error |-> <<"email send failed: ", out.desc>>]) \o
                 <<Ret("send_email_alert", FALSE)>>

\* log_result with `elif ALERT_EMAIL_TO`: e-mail only when the webhook is off.
log_result_next_elif(at, s) ==
    LET email == IF ALERT_EMAIL_TO # "" THEN "send_email_alert" ELSE "append"
        slack == IF SLACK_WEBHOOK # "" THEN "send_slack_alert" ELSE email
    IN CASE at = "log_result" -> IF startswith_DOWN(s) THEN "alert" ELSE "append"
         [] at = "alert" -> slack
         [] OTHER -> "append"

\* log_result with the ALERT record logged only when a channel is enabled.
log_result_next_quiet(at, s) ==
    LET email == IF ALERT_EMAIL_TO # "" THEN "send_email_alert" ELSE "append"
        slack == IF SLACK_WEBHOOK # "" THEN "send_slack_alert" ELSE email
    IN CASE at = "log_result" ->
              IF startswith_DOWN(s) /\ slack # "append" THEN "alert" ELSE "append"
         [] at = "alert" -> slack
         [] at = "send_slack_alert" -> email
         [] OTHER -> "append"

\* log_result with the two channel blocks in the other order.
log_result_next_emailFirst(at, s) ==
    LET slack == IF SLACK_WEBHOOK # "" THEN "send_slack_alert" ELSE "append"
        email == IF ALERT_EMAIL_TO # "" THEN "send_email_alert" ELSE slack
    IN CASE at = "log_result" -> IF startswith_DOWN(s) THEN "alert" ELSE "append"
         [] at = "alert" -> email
         [] at = "send_email_alert" -> slack
         [] OTHER -> "append"

\* log_result's control flow: the step that follows step `at`.
log_result_next(at, s) ==
    LET email == IF ALERT_EMAIL_TO # "" THEN "send_email_alert" ELSE "append"
        slack == IF SLACK_WEBHOOK # "" THEN "send_slack_alert" ELSE email
    IN CASE at = "log_result" -> IF startswith_DOWN(s) THEN "alert" ELSE "append"
         [] at = "alert" -> slack
         [] at = "send_slack_alert" -> email
         [] OTHER -> "append"

\* results.insert(0, ...) in place of results.append(...).
append_result_front(rs, url, s) == <<[url |-> url, status |-> s]>> \o rs

append_result(rs, url, s) == Append(rs, [url |-> url, status |-> s])

----------------------------------------------------------------------------
Init ==
    /\ URLS \in UNION {[1..n -> Fields] : n \in 0..MaxFields}
    /\ LOG_FILE \in LogPaths
    /\ writable \in BOOLEAN
    \* the file system matters only to a path that has a directory to make
    /\ (Len(LOG_FILE) < 2 => writable)
    /\ SLACK_WEBHOOK \in {"", "https://hooks.test/x"}
    /\ ALERT_EMAIL_TO \in {"", "ops@example.com"}
    /\ SMTP_SERVER \in {"", "smtp.test"}
    /\ SMTP_PORT \in {NoPort, Port(465), Port(587)}
    /\ SMTP_USER \in {"", "user"}
    \* the SMTP settings are read by send_email_alert alone, which runs only
    \* when ALERT_EMAIL_TO is set
    /\ (ALERT_EMAIL_TO = "" =>
          SMTP_SERVER = "" /\ SMTP_PORT = NoPort /\ SMTP_USER = "")
    /\ pc = "start"
    /\ urls = <<>>
    /\ i = 0
    /\ status = <<>>
    /\ results = <<>>
    /\ events = <<>>

\* run_checks_once, lines 109-110.
Start ==
    /\ pc = "start"
    /\ urls' = parse_urls(URLS)
    /\ results' = <<>>
    /\ i' = 1
    /\ pc' = IF Len(urls') >= 1 THEN "check_url" ELSE "return"
    /\ UNCHANGED <<config, status, events>>

\* run_checks_once, line 112: status = check_url(url).
CheckUrl ==
    /\ pc = "check_url"
    /\ \E out \in GetOutcomes :
         LET r == check_url(out)
         IN /\ events' = Append(events, Wire("GET", out))
            /\ IF r.raised
               THEN pc' = "raised" /\ UNCHANGED status
               ELSE pc' = "log_result" /\ status' = r.status
    /\ UNCHANGED <<config, urls, i, results>>

\* log_result, lines 92-97.
LogEntry ==
    /\ pc = "log_result"
    /\ events' = events \o
         emit_log([timestamp |-> "now", url |-> urls[i], status |-> status])
    /\ pc' = log_result_next("log_result", status)
    /\ UNCHANGED <<config, urls, i, status, results>>

\* log_result, lines 99-100.
EmitAlert ==
    /\ pc = "alert"
    /\ events' = events \o emit_log([ALERT |-> alert_text(urls[i], status)])
    /\ pc' = log_result_next("alert", status)
    /\ UNCHANGED <<config, urls, i, status, results>>

\* log_result, line 102.
SendSlack ==
    /\ pc = "send_slack_alert"
    /\ \E out \in PostOutcomes : events' = events \o send_slack_alert(out)
    /\ pc' = log_result_next("send_slack_alert", status)
    /\ UNCHANGED <<config, urls, i, status, results>>

\* log_result, lines 104-105.
SendEmail ==
    /\ pc = "send_email_alert"
    /\ \E out \in SmtpOutcomes : events' = events \o send_email_alert(out)
    /\ pc' = log_result_next("send_email_alert", status)
    /\ UNCHANGED <<config, urls, i, status, results>>

\* run_checks_once, line 114, and the loop's advance or the return.
AppendResult ==
    /\ pc = "append"
    /\ results' = append_result(results, urls[i], status)
    /\ i' = i + 1
    /\ pc' = IF i < Len(urls) THEN "check_url" ELSE "return"
    /\ UNCHANGED <<config, urls, status, events>>

Next ==
    \/ Start
    \/ CheckUrl
    \/ LogEntry
    \/ EmitAlert
    \/ SendSlack
    \/ SendEmail
    \/ AppendResult

Spec == Init /\ [][Next]_vars

----------------------------------------------------------------------------
\* Reading the history.

On(ch) == SelectSeq(events, LAMBDA e : e.ch = ch)
Lines(ch) == [k \in DOMAIN On(ch) |-> On(ch)[k].line]
IsResult(l) == "status" \in DOMAIN l
IsAlert(l) == "ALERT" \in DOMAIN l
IsError(l) == "error" \in DOMAIN l
IsDown(s) == s # <<>> /\ s[1] = "DOWN"
Carries(s, tok) == \E j \in DOMAIN s : s[j] = tok

\* The positions in events of the prints of kind K for endpoint n.
Printed(n, K(_)) ==
    {k \in DOMAIN events :
        events[k].ch = "stdout" /\ events[k].i = n /\ K(events[k].line)}
\* The positions of the wire calls on ch for endpoint n.
Wired(n, ch) == {k \in DOMAIN events : events[k].ch = ch /\ events[k].i = n}
\* The positions of the returns of channel function fn for endpoint n.
Calls(n, fn) ==
    {k \in DOMAIN events :
        events[k].ch = "return" /\ events[k].i = n /\ events[k].fn = fn}
\* The status check_url returned for endpoint n, once it has.
Probed(n) == n <= Len(results) \/ (n = i /\ pc \notin {"start", "check_url", "raised"})
StatusOf(n) == IF n <= Len(results) THEN results[n].status ELSE status
\* Endpoint n has been handled to the end of the loop body.
Handled(n) == n <= Len(results)
Endpoints == 1..Len(urls)

----------------------------------------------------------------------------
\* C1: check_url answers UP for a 200 response, a DOWN status carrying the
\* code for any other response, and a DOWN status carrying the error text
\* when the transport raises a RequestException, which does not escape.
C1_Classification ==
    \A k \in DOMAIN events :
        events[k].ch = "GET" /\ events[k].out.kind # "Exception" =>
            LET out == events[k].out
                n == events[k].i
                s == StatusOf(n)
            IN /\ Probed(n)
               /\ out.kind = "response" /\ out.code = 200 => s = <<"UP">>
               /\ out.kind = "response" /\ out.code # 200 =>
                    IsDown(s) /\ Carries(s, ToString(out.code))
               /\ out.kind = "RequestException" =>
                    IsDown(s) /\ Carries(s, out.desc)

C1_Witness ==
    /\ Len(results) = 2
    /\ \E k \in Wired(1, "GET") : events[k].out = Response(503)
    /\ results[1].status = <<"DOWN", " (", "503", ")">>
    /\ \E k \in Wired(2, "GET") : events[k].out.kind = "RequestException"
    /\ results[2].status = <<"DOWN", " (", "Error: ", "timeout", ")">>

\* C2: no failure of the GET escapes check_url: whatever the transport does,
\* the probe ends with a status and not with an exception; and each probe
\* makes one GET.
C2_NeverRaises ==
    \A n \in Endpoints :
        /\ Cardinality(Wired(n, "GET")) <= 1
        /\ Wired(n, "GET") # {} => Probed(n) /\ StatusOf(n) # <<>>

\* C3: for a handled DOWN result each enabled channel was invoked once and
\* each disabled channel never, whatever the other channel did.
C3_FanOut ==
    \A n \in Endpoints :
        /\ Cardinality(Calls(n, "send_slack_alert")) <= 1
        /\ Cardinality(Calls(n, "send_email_alert")) <= 1
        /\ Handled(n) /\ IsDown(StatusOf(n)) =>
            /\ Cardinality(Calls(n, "send_slack_alert")) =
                 IF SLACK_WEBHOOK # "" THEN 1 ELSE 0
            /\ Cardinality(Wired(n, "POST")) =
                 IF SLACK_WEBHOOK # "" THEN 1 ELSE 0
            /\ Cardinality(Calls(n, "send_email_alert")) =
                 IF ALERT_EMAIL_TO # "" THEN 1 ELSE 0
            /\ ALERT_EMAIL_TO = "" => Wired(n, "SMTP") = {}

C3_Witness ==
    /\ Handled(1) /\ IsDown(StatusOf(1))
    /\ \E k \in Wired(1, "POST") : events[k].out.kind = "RequestException"
    /\ \E k \in Calls(1, "send_slack_alert") : ~events[k].val
    /\ Calls(1, "send_email_alert") # {}
    /\ Wired(1, "SMTP") # {}

\* C4: a handled result has one ALERT record when it is DOWN, with or
\* without channels and whatever they answered, and none when it is UP; an
\* UP result invokes no channel.
C4_OneAlert ==
    \A n \in Endpoints :
        /\ Cardinality(Printed(n, IsAlert)) <= 1
        /\ Handled(n) /\ IsDown(StatusOf(n)) =>
             Cardinality(Printed(n, IsAlert)) = 1
        /\ Probed(n) /\ ~IsDown(StatusOf(n)) =>
            /\ Printed(n, IsAlert) = {}
            /\ Calls(n, "send_slack_alert") = {}
            /\ Calls(n, "send_email_alert") = {}
            /\ Wired(n, "POST") = {} /\ Wired(n, "SMTP") = {}

C4_Witness ==
    /\ pc = "return" /\ Len(results) = 2
    /\ SLACK_WEBHOOK = "" /\ ALERT_EMAIL_TO = ""
    /\ IsDown(results[1].status) /\ Cardinality(Printed(1, IsAlert)) = 1
    /\ results[2].status = <<"UP">> /\ Printed(2, IsAlert) = {}

\* C5: the results are, in input order, each endpoint's url with the status
\* its probe returned; when run_checks_once returns there is one per
\* endpoint.  (They are a function of the endpoints and the probe outcomes.)
C5_Results ==
    /\ Len(results) <= Len(urls)
    /\ pc \in {"check_url", "log_result", "alert", "send_slack_alert",
               "send_email_alert", "append"} => Len(results) = i - 1
    /\ pc = "return" => Len(results) = Len(urls) /\ urls = parse_urls(URLS)
    /\ \A n \in 1..Len(results) :
         /\ DOMAIN results[n] = {"url", "status"}
         /\ results[n].url = urls[n]
         /\ \E k \in Wired(n, "GET") :
              results[n].status = check_url(events[k].out).status

C5_Witness ==
    /\ pc = "return" /\ Len(results) = 2
    /\ results[1].url = results[2].url
    /\ results[1].status = <<"UP">>
    /\ IsDown(results[2].status)

\* The place of an event in an endpoint's handling (0: not ranked).
Phase(e) ==
    CASE e.ch = "GET" -> 1
      [] e.ch = "stdout" /\ IsResult(e.line) -> 2
      [] e.ch = "stdout" /\ IsAlert(e.line) -> 3
      [] e.ch = "POST" -> 4
      [] e.ch = "return" /\ e.fn = "send_slack_alert" -> 4
      [] e.ch = "SMTP" -> 5
      [] e.ch = "return" /\ e.fn = "send_email_alert" -> 5
      [] OTHER -> 0

\* C6: per endpoint the probe comes first, then the result record, the ALERT
\* record, the webhook send, the e-mail send; nothing of an endpoint comes
\* before its probe; everything of endpoint n comes before the probe of n+1.
\* Stated on neighbours in the history, which is enough: both orders are
\* transitive, and an endpoint's first event is then its probe.
C6_Order ==
    LET keyed == SelectSeq(events, LAMBDA e : Phase(e) # 0)
    IN /\ events # <<>> => events[1].ch = "GET"
       /\ \A k \in 2..Len(events) :
            /\ events[k - 1].i <= events[k].i
            /\ events[k].ch # "GET" => events[k - 1].i = events[k].i
       /\ \A k \in 2..Len(keyed) :
            keyed[k - 1].i = keyed[k].i =>
                \/ Phase(keyed[k - 1]) < Phase(keyed[k])
                \/ /\ Phase(keyed[k - 1]) = Phase(keyed[k])
                   /\ keyed[k - 1].ch # "return"
                   /\ keyed[k].ch = "return"

C6_Witness ==
    /\ Printed(1, IsResult) # {} /\ Printed(1, IsAlert) # {}
    /\ Wired(1, "POST") # {} /\ Wired(1, "SMTP") # {}
    /\ Wired(2, "GET") # {}

\* C7: the run always completes: it ends by returning, never by an exception,
\* and by then the primary stream holds one result record per endpoint.
C7_RunCompletes ==
    /\ pc # "raised"
    /\ pc = "return" =>
         \A n \in Endpoints : Cardinality(Printed(n, IsResult)) = 1

\* C8: with LOG_FILE set and writable the file receives the lines printed to
\* the primary stream, in order: one per endpoint and one per ALERT.
C8_FileMatchesStdout ==
    LOG_FILE # <<>> /\ writable =>
        /\ Lines("file") = Lines("stdout")
        /\ pc = "return" =>
             Len(Lines("file")) =
                Len(urls) + Cardinality({n \in Endpoints : Printed(n, IsAlert) # {}})

\* C9: when SMTP server, port or user is missing, send_email_alert returns
\* false, logs the "not configured" note and opens no SMTP session.
C9_SmtpNeedsAllThree ==
    SMTP_SERVER = "" \/ ~Truthy(SMTP_PORT) \/ SMTP_USER = "" =>
        \A n \in Endpoints :
            /\ Wired(n, "SMTP") = {}
            /\ \A k \in Calls(n, "send_email_alert") :
                 /\ ~events[k].val
                 /\ \E j \in Printed(n, IsError) :
                      j < k /\ events[j].line.error =
                                 <<"SMTP not configured, skipping email alert">>

\* An error record written by channel function fn itself.
ChannelError(l, fn) ==
    /\ IsError(l)
    /\ IF fn = "send_slack_alert"
       THEN l.error[1] = "slack send failed: "
       ELSE l.error[1] \in {"email send failed: ",
                            "SMTP not configured, skipping email alert"}
Succeeded(n, fn) ==
    IF fn = "send_slack_alert"
    THEN \E k \in Wired(n, "POST") :
            events[k].out.kind = "response" /\ events[k].out.code = 200
    ELSE \E k \in Wired(n, "SMTP") : events[k].out.kind = "sent"

\* C10: a channel send that does not succeed returns false and has logged an
\* error record of its own; the webhook returns true only for a 200.
C10_FailuresLogged ==
    \A k \in DOMAIN events :
        events[k].ch = "return" =>
            LET n == events[k].i
                fn == events[k].fn
            IN /\ events[k].val <=> Succeeded(n, fn)
               /\ ~Succeeded(n, fn) =>
                    \E j \in Printed(n, IsError) :
                        j < k /\ ChannelError(events[j].line, fn)

====
